---- MODULE Spec2Model ----
(***************************************************************************)
(* IEC 60870-5-104 client core (iec_client.IEC104Client): connection       *)
(* lifecycle, command dispatch (select-before-operate single commands and  *)
(* float setpoints), periodic general interrogation, ingestion of decoded  *)
(* ASDUs into the four point tables, and the two callback slots.           *)
(*                                                                         *)
(* Threads of control:                                                     *)
(*   - caller threads (Callers) invoking the exported methods; the Send    *)
(*     button handlers of the UI write the local echo after a successful   *)
(*     send;                                                               *)
(*   - the goroutine started by NewIEC104Client (run / allCall);           *)
(*   - the transport (cs104.Client) which fires the on-connect and         *)
(*     connection-lost handlers and calls ASDUHandler per decoded message. *)
(*                                                                         *)
(* A step that takes the mutex is merged with the first statement of the   *)
(* critical section, and the deferred Unlock with the last one.            *)
(*                                                                         *)
(* Floating point values are modelled by integers; float32(x) rounds an    *)
(* integer down to a multiple of Float32Step (the precision lost by the    *)
(* narrowing), float64(x) is exact.                                        *)
(***************************************************************************)
EXTENDS Integers, Sequences, FiniteSets, TLC

\* ------------------------------------------------------------------ bounds
MaxCalls == 3        \* method calls started by the caller threads, in total
MaxSessions == 2     \* cs104 clients created by Connect, in total
MaxEvents == 2       \* on-connect events delivered by the transport, in total
MaxTicks == 2        \* allCall invocations of the scheduler, in total
MaxMsgs == 1         \* decoded ASDUs delivered to ASDUHandler, in total
MaxPoints == 2       \* information objects per decoded ASDU
MaxOffsetIdx == 1    \* command offsets are 0 and multiples of OffsetStep
MaxValue == 1        \* analog values are 0..MaxValue

\* --------------------------------------------------------- program constants
TelecontrolBase == 24577
TeleregulationBase == 25089
CmdCommonAddr == 1
Float32Step == 2
DefaultCommonAddr == 1
DefaultPort == 2404
DefaultInterrogationInterval == 15
RunCallInterval == 15
NoTimer == 0

\* the distance of the two command bases: SendTelecontrol(OffsetStep, v) and
\* SendTelemetry(0, x) address the same information object
OffsetStep == TeleregulationBase - TelecontrolBase

Callers == {"u1", "u2"}
Offsets == {k * OffsetStep : k \in 0..MaxOffsetIdx}
FloatVals == 0..MaxValue
\* the configurations UpdateConfig is called with: the default one and one
\* that differs from it in every field, with a host that is no valid address
Configs ==
    {[host |-> "127.0.0.1", port |-> DefaultPort, ca |-> DefaultCommonAddr,
      interval |-> DefaultInterrogationInterval],
     [host |-> "bad host", port |-> DefaultPort + 1, ca |-> DefaultCommonAddr + 1,
      interval |-> 2 * DefaultInterrogationInterval]}
CommonAddrs == {c.ca : c \in Configs}
HandlerIds == {1, 2}
NoHandler == 0
NoSession == 0
NoIoa == -1
InAddrs == {100, 16385}
Sessions == 1..MaxSessions

MeasuredTypes == {"M_ME_NC_1", "M_ME_NA_1", "M_ME_ND_1", "M_ME_NB_1"}
HandledTypes == MeasuredTypes \cup {"M_SP_NA_1"}
\* iec_client.DataType: the four point tables and the tabs of the UI
DataTypes == {"Telemetry", "Teleindication", "Telecontrol", "Teleregulation"}
InTypes == HandledTypes \cup {"M_DP_NA_1"}

VARIABLES
    client, serverIP, serverPort, commonAddr,
    closer, mu, connectionStateHandler, dataHandler,
    Connected, Telemetry, Teleindication, Telecontrol, Teleregulation,
    sessions, panicked,
    pc, arg, err, addrIP, ncalls,
    spc, sawConnected, nticks, timer,
    hpc, hmsg, hidx, nevents, nmsgs, opc,
    handed, connNote, dataNote

clientVars == <<client, serverIP, serverPort, commonAddr, closer, mu,
                connectionStateHandler, dataHandler, Connected>>
tableVars == <<Telemetry, Teleindication, Telecontrol, Teleregulation>>
callerVars == <<pc, arg, err, addrIP, ncalls>>
schedVars == <<spc, sawConnected, nticks, timer>>
handlerVars == <<hpc, hmsg, hidx, nmsgs, opc>>
logVars == <<handed, connNote, dataNote>>
vars == <<clientVars, tableVars, sessions, panicked, callerVars, schedVars,
          handlerVars, nevents, logVars>>

\* ------------------------------------------------------------------ helpers
\* mutant: the assignment leaves only the assigned key in the map
MapSetAlone(m, k, v) == [x \in {k} |-> v]

\* m[k] = v on a Go map
MapSet(m, k, v) == [x \in DOMAIN m \cup {k} |-> IF x = k THEN v ELSE m[x]]

EmptyMap == [x \in {} |-> 0]

\* float32(value)
Float32(x) == x - (x % Float32Step)

\* float64(d.Value)
Float64(x) == x

\* option.AddRemoteServer(fmt.Sprintf("%s:%d", ip, port)) returns an error
\* when the address does not parse as a URL
AddRemoteServerOK(ip, port) == ip # "bad host"

\* asdu.CommonAddr(c.commonAddr): the conversion to the 16 bit common address
CommonAddrModulus == 65536
CommonAddr(x) == x % CommonAddrModulus

\* the cs104 client transmits only on an established connection
CanTransmit(s) == s # NoSession /\ sessions[s] = "up"

\* --------------------------------------------------- messages to the transport
\* asdu.SingleCmd(c.client, asdu.C_SC_NA_1, {Cause: Activation}, 1, {Ioa, Value, Qoc})
SingleCmd(ca, ioa, value, inSelect) ==
    [typ |-> "C_SC_NA_1", cause |-> "Activation", ca |-> ca, ioa |-> ioa,
     val |-> value, sel |-> inSelect, qoi |-> "none"]

\* asdu.SetpointCmdFloat(c.client, asdu.C_SE_NC_1, {Cause: Activation}, 1, {Ioa, Value})
SetpointCmdFloat(ca, ioa, value) ==
    [typ |-> "C_SE_NC_1", cause |-> "Activation", ca |-> ca, ioa |-> ioa,
     val |-> value, sel |-> FALSE, qoi |-> "none"]

\* asdu.InterrogationCmd(c.client, coa, ca, asdu.QOIStation)
InterrogationCmd(ca) ==
    [typ |-> "C_IC_NA_1", cause |-> "Activation", ca |-> ca, ioa |-> NoIoa,
     val |-> 0, sel |-> FALSE, qoi |-> "QOIStation"]

\* client.SendStartDt()
StartDt ==
    [typ |-> "STARTDT", cause |-> "none", ca |-> 0, ioa |-> NoIoa,
     val |-> 0, sel |-> FALSE, qoi |-> "none"]

\* one call into the transport: the message, the session it is written to,
\* and whether the transport accepted it
Handed(m, s, ok) == [msg |-> m, sess |-> s, ok |-> ok]

Threads == Callers \cup {"run", "transport"}

\* thread t hands h to the transport: handed[t] lists what t has handed in its
\* current call (a caller), tick (run) or on-connect handler (the transport)
Hand(t, h) == handed' = [handed EXCEPT ![t] = Append(@, h)]

\* the outcomes of a transmission on session s
SendOutcomes(s) == IF CanTransmit(s) THEN BOOLEAN ELSE {FALSE}

NumCreated == Cardinality({s \in Sessions : sessions[s] # "none"})

\* ---------------------------------------------------------------- the calls
Ops ==
    [op : {"Connect", "Disconnect", "Close"}]
    \cup [op : {"SendTelecontrol"}, offset : Offsets, value : BOOLEAN]
    \cup [op : {"SendTelemetry"}, offset : Offsets, value : FloatVals]
    \cup {[op |-> "UpdateConfig", host |-> c.host, port |-> c.port, ca |-> c.ca,
            interval |-> c.interval] : c \in Configs}
    \cup [op : {"RegisterConnectionStateHandler", "RegisterDataHandler"},
          handler : HandlerIds]
    \cup [op : {"switchTab"}, tab : DataTypes]

NoArg == [op |-> "none"]

NoMsg == [ca |-> 0, typ |-> "none", pts |-> <<>>]

EntryPC(op) ==
    CASE op = "Connect" -> "cn_check"
      [] op = "Disconnect" -> "dc_check"
      [] op = "Close" -> "cl_close"
      [] op = "SendTelecontrol" -> "tc_check"
      [] op = "SendTelemetry" -> "tm_check"
      [] op = "UpdateConfig" -> "uc_lock"
      [] op = "RegisterConnectionStateHandler" -> "rc_set"
      [] op = "RegisterDataHandler" -> "rd_set"
      [] op = "switchTab" -> "ut_range"

ConnectsInFlight ==
    Cardinality({p \in Callers : pc[p] \in {"cn_check", "cn_lock", "cn_start"}})

\* ------------------------------------------------------------------- Init
\* the state after NewIEC104Client(host, port, commonAddr) with the defaults of
\* config.NewConfig, either before any handler is registered or after the UI
\* has registered its two handlers (setupUI)
Init ==
    /\ client = NoSession
    /\ serverIP = "127.0.0.1"
    /\ serverPort = DefaultPort
    /\ commonAddr = DefaultCommonAddr
    /\ closer = "open"
    /\ mu = "free"
    /\ \E h \in {NoHandler, 1} :
        /\ connectionStateHandler = h
        /\ dataHandler = h
    /\ Connected = FALSE
    /\ Telemetry = EmptyMap
    /\ Teleindication = EmptyMap
    /\ Telecontrol = EmptyMap
    /\ Teleregulation = EmptyMap
    /\ sessions = [s \in Sessions |-> "none"]
    /\ panicked = FALSE
    /\ pc = [p \in Callers |-> "idle"]
    /\ arg = [p \in Callers |-> NoArg]
    /\ err = [p \in Callers |-> "nil"]
    /\ addrIP = [p \in Callers |-> ""]
    /\ ncalls = 0
    /\ spc = "sleep"
    /\ sawConnected = FALSE
    /\ nticks = 0
    /\ timer = NoTimer
    /\ hpc = "idle"
    /\ hmsg = NoMsg
    /\ hidx = 0
    /\ nevents = 0
    /\ nmsgs = 0
    /\ opc = [s \in Sessions |-> "idle"]
    /\ handed = [t \in Threads |-> <<>>]
    /\ connNote = [handler |-> NoHandler, value |-> FALSE, sess |-> NoSession, n |-> 0]
    /\ dataNote = [handler |-> NoHandler, typ |-> "none", iot |-> 0, data |-> 0, n |-> 0]

\* mutant: the mutex excludes nobody
MayLockAlways(p) == TRUE

\* c.mu.Lock() by thread p returns only when no thread holds the mutex
MayLock(p) == mu = "free"

\* a caller thread starts a call of an exported method
CallOf(p, ops) ==
    /\ pc[p] = "idle"
    /\ ncalls < MaxCalls
    /\ \E a \in ops :
        /\ a.op = "Connect" => NumCreated + ConnectsInFlight < MaxSessions
        /\ arg' = [arg EXCEPT ![p] = a]
        /\ pc' = [pc EXCEPT ![p] = EntryPC(a.op)]
    /\ err' = [err EXCEPT ![p] = "nil"]
    /\ ncalls' = ncalls + 1
    /\ UNCHANGED <<clientVars, tableVars, sessions, panicked, addrIP, schedVars,
                   handlerVars, nevents, logVars>>

\* the call of thread p is over: its frame is gone
Finish(p) ==
    /\ pc' = [pc EXCEPT ![p] = "idle"]
    /\ arg' = [arg EXCEPT ![p] = NoArg]
    /\ err' = [err EXCEPT ![p] = "nil"]
    /\ addrIP' = [addrIP EXCEPT ![p] = ""]
    /\ handed' = [handed EXCEPT ![p] = <<>>]

Call(p) == CallOf(p, Ops)

\* return err, at the end of the method
Return(p, e) ==
    /\ pc' = [pc EXCEPT ![p] = "ret"]
    /\ err' = [err EXCEPT ![p] = e]

\* return err, from the if statement at the top of the method
ReturnAtGuard(p, e) ==
    /\ pc' = [pc EXCEPT ![p] = "ret_guard"]
    /\ err' = [err EXCEPT ![p] = e]

\* the method has returned and its caller has not yet looked at the result
HasReturned(p) == pc[p] \in {"ret_guard", "ret"}

Goto(p, l) ==
    /\ pc' = [pc EXCEPT ![p] = l]
    /\ UNCHANGED err

\* mutant: a slot that holds a handler keeps it
RegisterConnectionStateHandlerKeepFirst(p) ==
    /\ pc[p] = "rc_set"
    /\ connectionStateHandler' = IF connectionStateHandler = NoHandler
                                 THEN arg[p].handler
                                 ELSE connectionStateHandler
    /\ Return(p, "nil")
    /\ UNCHANGED <<client, serverIP, serverPort, commonAddr, closer, mu,
                   dataHandler, Connected, tableVars, sessions, panicked, arg,
                   addrIP, ncalls, schedVars, handlerVars, nevents, logVars>>

\* func (c *IEC104Client) RegisterConnectionStateHandler(handler)
RegisterConnectionStateHandler(p) ==
    /\ pc[p] = "rc_set"
    /\ connectionStateHandler' = arg[p].handler
    /\ Return(p, "nil")
    /\ UNCHANGED <<client, serverIP, serverPort, commonAddr, closer, mu,
                   dataHandler, Connected, tableVars, sessions, panicked, arg, addrIP, ncalls, schedVars, handlerVars, nevents, logVars>>

\* func (c *IEC104Client) RegisterDataHandler(handler)
RegisterDataHandler(p) ==
    /\ pc[p] = "rd_set"
    /\ dataHandler' = arg[p].handler
    /\ Return(p, "nil")
    /\ UNCHANGED <<client, serverIP, serverPort, commonAddr, closer, mu,
                   connectionStateHandler, Connected, tableVars, sessions, panicked,
                   arg, addrIP, ncalls, schedVars, handlerVars, nevents, logVars>>

\* UpdateConfig: c.mu.Lock(); c.mu.Unlock() -- waits for the mutex and
\* releases it at once, before any field is written
UpdateConfigLock(p) ==
    /\ pc[p] = "uc_lock"
    /\ MayLock(p)
    /\ Goto(p, "uc_ip")
    /\ UNCHANGED <<clientVars, tableVars, sessions, panicked, arg, addrIP,
                   ncalls, schedVars, handlerVars, nevents, logVars>>

\* UpdateConfig: c.serverIP = host
UpdateConfigIP(p) ==
    /\ pc[p] = "uc_ip"
    /\ serverIP' = arg[p].host
    /\ Goto(p, "uc_port")
    /\ UNCHANGED <<client, serverPort, commonAddr, closer, mu,
                   connectionStateHandler, dataHandler, Connected, tableVars,
                   sessions, panicked, arg, addrIP, ncalls, schedVars,
                   handlerVars, nevents, logVars>>

\* UpdateConfig: c.serverPort = port
UpdateConfigPort(p) ==
    /\ pc[p] = "uc_port"
    /\ serverPort' = arg[p].port
    /\ Goto(p, "uc_ca")
    /\ UNCHANGED <<client, serverIP, commonAddr, closer, mu,
                   connectionStateHandler, dataHandler, Connected, tableVars,
                   sessions, panicked, arg, addrIP, ncalls, schedVars,
                   handlerVars, nevents, logVars>>

\* UpdateConfig: c.commonAddr = commonAddr
UpdateConfigCA(p) ==
    /\ pc[p] = "uc_ca"
    /\ commonAddr' = arg[p].ca
    /\ Return(p, "nil")
    /\ UNCHANGED <<client, serverIP, serverPort, closer, mu,
                   connectionStateHandler, dataHandler, Connected, tableVars,
                   sessions, panicked, arg, addrIP, ncalls, schedVars,
                   handlerVars, nevents, logVars>>

\* mutant: Connect does not look at the Connected flag
ConnectCheckNoGuard(p) ==
    /\ pc[p] = "cn_check"
    /\ Goto(p, "cn_lock")
    /\ UNCHANGED <<clientVars, tableVars, sessions, panicked, arg, addrIP,
                   ncalls, schedVars, handlerVars, nevents, logVars>>

\* Connect: if c.Connected.Load() { return nil }
ConnectCheck(p) ==
    /\ pc[p] = "cn_check"
    /\ IF Connected THEN ReturnAtGuard(p, "nil") ELSE Goto(p, "cn_lock")
    /\ UNCHANGED <<clientVars, tableVars, sessions, panicked, arg, addrIP,
                   ncalls, schedVars, handlerVars, nevents, logVars>>

\* Connect: c.mu.Lock(); option := cs104.NewOption() with auto reconnect and
\* the 5 s reconnect interval; the host of the remote address is read
ConnectLock(p) ==
    /\ pc[p] = "cn_lock"
    /\ MayLock(p)
    /\ mu' = p
    /\ addrIP' = [addrIP EXCEPT ![p] = serverIP]
    /\ Goto(p, "cn_start")
    /\ UNCHANGED <<client, serverIP, serverPort, commonAddr, closer,
                   connectionStateHandler, dataHandler, Connected, tableVars,
                   sessions, panicked, arg, ncalls, schedVars, handlerVars,
                   nevents, logVars>>

\* Connect: the port is read, AddRemoteServer; on error return it. Else
\* c.client = cs104.NewClient(c, option), the two handlers are set,
\* c.client.Start(), and the deferred Unlock. A started session is connecting.
ConnectStart(p) ==
    /\ pc[p] = "cn_start"
    /\ mu' = "free"
    /\ IF ~AddRemoteServerOK(addrIP[p], serverPort)
       THEN /\ Return(p, "address error")
            /\ UNCHANGED <<client, sessions>>
       ELSE \E started \in BOOLEAN :
            LET s == NumCreated + 1 IN
            /\ client' = s
            /\ sessions' = [sessions EXCEPT
                              ![s] = IF started THEN "connecting" ELSE "new"]
            /\ Return(p, IF started THEN "nil" ELSE "connect error")
    /\ UNCHANGED <<serverIP, serverPort, commonAddr, closer,
                   connectionStateHandler, dataHandler, Connected, tableVars,
                   panicked, arg, addrIP, ncalls, schedVars, handlerVars,
                   nevents, logVars>>

\* mutant: Close leaves the session as it is
SessionCloseNothing(st) == st

\* cs104 Client.Close(): a connected session is torn down (its connection-lost
\* handler is still to run), any other session just stops
SessionClose(st) ==
    CASE st = "up" -> "closing"
      [] st = "closing" -> "closing"
      [] OTHER -> "closed"

\* mutant: the guard returns only when both conditions hold
DisconnectCheckBoth(p) ==
    /\ pc[p] = "dc_check"
    /\ IF ~Connected /\ client = NoSession
       THEN ReturnAtGuard(p, "nil")
       ELSE Goto(p, "dc_close")
    /\ UNCHANGED <<clientVars, tableVars, sessions, panicked, arg, addrIP,
                   ncalls, schedVars, handlerVars, nevents, logVars>>

\* Disconnect: if !c.Connected.Load() || c.client == nil { return nil }
DisconnectCheck(p) ==
    /\ pc[p] = "dc_check"
    /\ IF ~Connected \/ client = NoSession
       THEN ReturnAtGuard(p, "nil")
       ELSE Goto(p, "dc_close")
    /\ UNCHANGED <<clientVars, tableVars, sessions, panicked, arg, addrIP,
                   ncalls, schedVars, handlerVars, nevents, logVars>>

\* mutant: Disconnect closes the session without taking the mutex
DisconnectCloseUnlocked(p) ==
    /\ pc[p] = "dc_close"
    /\ sessions' = [sessions EXCEPT ![client] = SessionClose(sessions[client])]
    /\ Connected' = FALSE
    /\ Return(p, "nil")
    /\ UNCHANGED <<client, serverIP, serverPort, commonAddr, closer, mu,
                   connectionStateHandler, dataHandler, tableVars, panicked, arg,
                   addrIP, ncalls, schedVars, handlerVars, nevents, logVars>>

\* Disconnect: c.mu.Lock(); c.client.Close(); c.Connected.Store(false);
\* the deferred Unlock; return nil
DisconnectClose(p) ==
    /\ pc[p] = "dc_close"
    /\ MayLock(p)
    /\ sessions' = [sessions EXCEPT ![client] = SessionClose(sessions[client])]
    /\ Connected' = FALSE
    /\ Return(p, "nil")
    /\ UNCHANGED <<client, serverIP, serverPort, commonAddr, closer, mu,
                   connectionStateHandler, dataHandler, tableVars, panicked, arg,
                   addrIP, ncalls, schedVars, handlerVars, nevents, logVars>>

\* mutant: closing the closed channel is harmless
CloseAgain(p) ==
    /\ pc[p] = "cl_close"
    /\ closer' = "closed"
    /\ Goto(p, "dc_check")
    /\ UNCHANGED <<client, serverIP, serverPort, commonAddr, mu,
                   connectionStateHandler, dataHandler, Connected, tableVars,
                   sessions, panicked, arg, addrIP, ncalls, schedVars,
                   handlerVars, nevents, logVars>>

\* Close: close(c.closer), which panics on a closed channel; then c.Disconnect()
Close(p) ==
    /\ pc[p] = "cl_close"
    /\ IF closer = "closed"
       THEN /\ panicked' = TRUE
            /\ UNCHANGED <<closer, pc, err>>
       ELSE /\ closer' = "closed"
            /\ Goto(p, "dc_check")
            /\ UNCHANGED panicked
    /\ UNCHANGED <<client, serverIP, serverPort, commonAddr, mu,
                   connectionStateHandler, dataHandler, Connected, tableVars,
                   sessions, arg, addrIP, ncalls, schedVars, handlerVars,
                   nevents, logVars>>

\* ioa := offset + 24577
TelecontrolIoa(offset) == offset + TelecontrolBase

\* mutant: the setpoint is addressed with the base of the single commands
TeleregulationIoaOtherBase(offset) == offset + TelecontrolBase

\* ioa := offset + 25089
TeleregulationIoa(offset) == offset + TeleregulationBase

\* mutant: the check requires both conditions
NoConnectionBoth == ~Connected /\ client = NoSession

\* SendTelecontrol / SendTelemetry:
\* if !c.Connected.Load() || c.client == nil { return ErrorNoConnection }
NoConnection == ~Connected \/ client = NoSession

\* SendTelecontrol: the connection check
SendTelecontrolCheck(p) ==
    /\ pc[p] = "tc_check"
    /\ IF NoConnection
       THEN ReturnAtGuard(p, "ErrorNoConnection")
       ELSE Goto(p, "tc_select")
    /\ UNCHANGED <<clientVars, tableVars, sessions, panicked, arg, addrIP,
                   ncalls, schedVars, handlerVars, nevents, logVars>>

\* mutant: the error of the select command is not looked at
SendTelecontrolSelectAnyway(p) ==
    /\ pc[p] = "tc_select"
    /\ MayLock(p)
    /\ \E ok \in SendOutcomes(client) :
        Hand(p, Handed(SingleCmd(CmdCommonAddr, TelecontrolIoa(arg[p].offset),
                                 arg[p].value, TRUE),
                       client, ok))
    /\ mu' = p
    /\ Goto(p, "tc_execute")
    /\ UNCHANGED <<client, serverIP, serverPort, commonAddr, closer,
                   connectionStateHandler, dataHandler, Connected, tableVars,
                   sessions, panicked, arg, addrIP, ncalls, schedVars,
                   handlerVars, nevents, connNote, dataNote>>

\* SendTelecontrol: c.mu.Lock(); the single command with InSelect: true;
\* on error the deferred Unlock and return
SendTelecontrolSelect(p) ==
    /\ pc[p] = "tc_select"
    /\ MayLock(p)
    /\ \E ok \in SendOutcomes(client) :
        /\ Hand(p, Handed(SingleCmd(CmdCommonAddr, TelecontrolIoa(arg[p].offset),
                                     arg[p].value, TRUE),
                           client, ok))
        /\ IF ok
           THEN /\ mu' = p
                /\ Goto(p, "tc_execute")
           ELSE /\ mu' = "free"
                /\ Return(p, "send Select Command error")
    /\ UNCHANGED <<client, serverIP, serverPort, commonAddr, closer,
                   connectionStateHandler, dataHandler, Connected, tableVars,
                   sessions, panicked, arg, addrIP, ncalls, schedVars,
                   handlerVars, nevents, connNote, dataNote>>

\* SendTelecontrol: time.Sleep(200 ms); the single command without the select
\* qualifier; the deferred Unlock; return
SendTelecontrolExecute(p) ==
    /\ pc[p] = "tc_execute"
    /\ \E ok \in SendOutcomes(client) :
        /\ Hand(p, Handed(SingleCmd(CmdCommonAddr, TelecontrolIoa(arg[p].offset),
                                     arg[p].value, FALSE),
                           client, ok))
        /\ Return(p, IF ok THEN "nil" ELSE "send Telecontrol Command error")
    /\ mu' = "free"
    /\ UNCHANGED <<client, serverIP, serverPort, commonAddr, closer,
                   connectionStateHandler, dataHandler, Connected, tableVars,
                   sessions, panicked, arg, addrIP, ncalls, schedVars,
                   handlerVars, nevents, connNote, dataNote>>

\* SendTelemetry: the connection check
SendTelemetryCheck(p) ==
    /\ pc[p] = "tm_check"
    /\ IF NoConnection
       THEN ReturnAtGuard(p, "ErrorNoConnection")
       ELSE Goto(p, "tm_send")
    /\ UNCHANGED <<clientVars, tableVars, sessions, panicked, arg, addrIP,
                   ncalls, schedVars, handlerVars, nevents, logVars>>

\* SendTelemetry: c.mu.Lock(); the setpoint command with float32(value);
\* the deferred Unlock; return
SendTelemetrySend(p) ==
    /\ pc[p] = "tm_send"
    /\ MayLock(p)
    /\ \E ok \in SendOutcomes(client) :
        /\ Hand(p, Handed(SetpointCmdFloat(CmdCommonAddr,
                                            TeleregulationIoa(arg[p].offset),
                                            Float32(arg[p].value)),
                           client, ok))
        /\ Return(p, IF ok THEN "nil" ELSE "send Telemetry Command error")
    /\ UNCHANGED <<clientVars, tableVars, sessions, panicked, arg, addrIP,
                   ncalls, schedVars, handlerVars, nevents, connNote, dataNote>>

\* the Send button of showTelecontrolDialog, after SendTelecontrol returned:
\* on success a.iecClient.Telecontrol[index] = TelecontrolPoint{Value: value}
showTelecontrolDialog(p) ==
    /\ HasReturned(p)
    /\ arg[p].op = "SendTelecontrol"
    /\ IF err[p] = "nil"
       THEN Telecontrol' = MapSet(Telecontrol, arg[p].offset,
                                  [Address |-> 0, Value |-> arg[p].value])
       ELSE UNCHANGED Telecontrol
    /\ Finish(p)
    /\ UNCHANGED <<clientVars, Telemetry, Teleindication, Teleregulation,
                   sessions, panicked, ncalls, schedVars, handlerVars, nevents,
                   connNote, dataNote>>

\* mutant: the echo is keyed by the wire address of the setpoint
showTeleregulationDialogByIoa(p) ==
    /\ HasReturned(p)
    /\ arg[p].op = "SendTelemetry"
    /\ IF err[p] = "nil"
       THEN Teleregulation' = MapSet(Teleregulation,
                                     TeleregulationIoa(arg[p].offset),
                                     [Address |-> 0, Value |-> arg[p].value])
       ELSE UNCHANGED Teleregulation
    /\ Finish(p)
    /\ UNCHANGED <<clientVars, Telemetry, Teleindication, Telecontrol,
                   sessions, panicked, ncalls, schedVars, handlerVars, nevents,
                   connNote, dataNote>>

\* the Send button of showTeleregulationDialog, after SendTelemetry returned:
\* on success a.iecClient.Teleregulation[index] = TeleregulationPoint{Value: value}
showTeleregulationDialog(p) ==
    /\ HasReturned(p)
    /\ arg[p].op = "SendTelemetry"
    /\ IF err[p] = "nil"
       THEN Teleregulation' = MapSet(Teleregulation, arg[p].offset,
                                     [Address |-> 0, Value |-> arg[p].value])
       ELSE UNCHANGED Teleregulation
    /\ Finish(p)
    /\ UNCHANGED <<clientVars, Telemetry, Teleindication, Telecontrol,
                   sessions, panicked, ncalls, schedVars, handlerVars, nevents,
                   connNote, dataNote>>

\* any other call has returned to its caller
Returned(p) ==
    /\ HasReturned(p)
    /\ arg[p].op \notin {"SendTelecontrol", "SendTelemetry"}
    /\ Finish(p)
    /\ UNCHANGED <<clientVars, tableVars, sessions, panicked, ncalls, schedVars,
                   handlerVars, nevents, connNote, dataNote>>

\* the handler is at the assignment to the table of DataType t
\* (ASDUHandler: c.Telemetry[...] = ... or c.Teleindication[...] = ...)
WritesTable(t) ==
    /\ hpc = "store"
    /\ t = (IF hmsg.typ = "M_SP_NA_1" THEN "Teleindication" ELSE "Telemetry")

\* mutant: the reader takes the client mutex around its loop
updateTableDataLocked(p) ==
    /\ pc[p] = "ut_range"
    /\ MayLock(p)
    /\ ~WritesTable(arg[p].tab)
    /\ Return(p, "nil")
    /\ UNCHANGED <<clientVars, tableVars, sessions, panicked, arg, addrIP,
                   ncalls, schedVars, handlerVars, nevents, logVars>>

\* switchTab(tab) of the UI: updateTableData ranges over the table of the
\* current tab (for address, point := range a.iecClient.Telemetry, ...) with
\* no lock. A map that is written while it is iterated is a data race: the
\* runtime may stop the process (concurrent map iteration and map write) or
\* the loop may go on.
updateTableData(p) ==
    /\ pc[p] = "ut_range"
    /\ IF WritesTable(arg[p].tab)
       THEN \E fatal \in BOOLEAN :
            /\ panicked' = fatal
            /\ IF fatal THEN UNCHANGED <<pc, err>> ELSE Return(p, "nil")
       ELSE /\ Return(p, "nil")
            /\ UNCHANGED panicked
    /\ UNCHANGED <<clientVars, tableVars, sessions, arg, addrIP, ncalls,
                   schedVars, handlerVars, nevents, logVars>>

\* ------------------------------------------------------------ the scheduler
\* run: time.Sleep(5 s), then the first c.allCall()
RunSleep ==
    /\ spc = "sleep"
    /\ nticks < MaxTicks
    /\ spc' = "ac_check"
    /\ nticks' = nticks + 1
    /\ handed' = [handed EXCEPT !["run"] = <<>>]
    /\ timer' = NoTimer
    /\ UNCHANGED <<clientVars, tableVars, sessions, panicked, callerVars,
                   sawConnected, handlerVars, nevents, connNote,
                   dataNote>>

\* run: case <-timer.C: c.allCall(); timer.Reset(callInterval)
RunTimer ==
    /\ spc = "select"
    /\ nticks < MaxTicks
    /\ spc' = "ac_check"
    /\ nticks' = nticks + 1
    /\ handed' = [handed EXCEPT !["run"] = <<>>]
    /\ timer' = NoTimer
    /\ UNCHANGED <<clientVars, tableVars, sessions, panicked, callerVars,
                   sawConnected, handlerVars, nevents, connNote,
                   dataNote>>

\* mutant: the loop has no stop case and re-arms its timer instead
RunClosedRearm ==
    /\ spc = "select"
    /\ closer = "closed"
    /\ spc' = "select"
    /\ timer' = RunCallInterval
    /\ UNCHANGED <<clientVars, tableVars, sessions, panicked, callerVars,
                   sawConnected, nticks, handlerVars, nevents, logVars>>

\* run: case <-c.closer: return, and the deferred timer.Stop()
RunClosed ==
    /\ spc = "select"
    /\ closer = "closed"
    /\ spc' = "exited"
    /\ timer' = NoTimer
    /\ UNCHANGED <<clientVars, tableVars, sessions, panicked, callerVars,
                   sawConnected, nticks, handlerVars, nevents, logVars>>

\* mutant: allCall sends whatever the flag says
AfterLoadAlwaysSend(b) == "ac_send"

\* allCall: where it goes after c.Connected.Load() returned b
AfterLoad(b) == IF ~b THEN "select" ELSE "ac_send"

\* run: back from allCall, time.NewTimer(callInterval) after the first call and
\* timer.Reset(callInterval) after the later ones
ArmTimer(d) == timer' = d

\* allCall: if !c.Connected.Load() { return }
AllCallCheck ==
    /\ spc = "ac_check"
    /\ sawConnected' = Connected
    /\ spc' = AfterLoad(Connected)
    /\ IF spc' = "select" THEN ArmTimer(RunCallInterval) ELSE UNCHANGED timer
    /\ UNCHANGED <<clientVars, tableVars, sessions, panicked, callerVars,
                   nticks, handlerVars, nevents, logVars>>

\* allCall: asdu.InterrogationCmd(c.client, coa, ca, asdu.QOIStation); an
\* error is logged and allCall returns to the loop of run either way
AllCallSend ==
    /\ spc = "ac_send"
    /\ \E ok \in SendOutcomes(client) :
        Hand("run", Handed(InterrogationCmd(CommonAddr(commonAddr)),
                           client, ok))
    /\ spc' = "select"
    /\ ArmTimer(RunCallInterval)
    /\ UNCHANGED <<clientVars, tableVars, sessions, panicked, callerVars,
                   sawConnected, nticks, handlerVars, nevents, connNote,
                   dataNote>>

\* ------------------------------------------------------------- the transport
\* c.connectionStateHandler(b), if one is registered: connNote is the latest
\* invocation of a connectivity callback and counts them
NotifyConnection(b, s) ==
    IF connectionStateHandler # NoHandler
    THEN [handler |-> connectionStateHandler, value |-> b, sess |-> s,
          n |-> connNote.n + 1]
    ELSE connNote

\* mutant: the handler goes from the store straight to SendStartDt
OnConnectThenStartDt(s) ==
    /\ sessions[s] = "connecting"
    /\ opc[s] = "idle"
    /\ nevents < MaxEvents
    /\ nevents' = nevents + 1
    /\ sessions' = [sessions EXCEPT ![s] = "up"]
    /\ Connected' = TRUE
    /\ opc' = [opc EXCEPT ![s] = "startdt"]
    /\ UNCHANGED <<client, serverIP, serverPort, commonAddr, closer, mu,
                   connectionStateHandler, dataHandler, tableVars, panicked,
                   callerVars, schedVars, hpc, hmsg, hidx, nmsgs, logVars>>

\* the on-connect handler set by Connect, run by session s when its connection
\* is established: c.Connected.Store(true)
OnConnect(s) ==
    /\ sessions[s] = "connecting"
    /\ opc[s] = "idle"
    /\ nevents < MaxEvents
    /\ nevents' = nevents + 1
    /\ sessions' = [sessions EXCEPT ![s] = "up"]
    /\ Connected' = TRUE
    /\ opc' = [opc EXCEPT ![s] = "notify"]
    /\ UNCHANGED <<client, serverIP, serverPort, commonAddr, closer, mu,
                   connectionStateHandler, dataHandler, tableVars, panicked,
                   callerVars, schedVars, hpc, hmsg, hidx, nmsgs, logVars>>

\* the on-connect handler: if c.connectionStateHandler != nil
\* { c.connectionStateHandler(true) }, and the log line
OnConnectNotify(s) ==
    /\ opc[s] = "notify"
    /\ connNote' = NotifyConnection(TRUE, s)
    /\ opc' = [opc EXCEPT ![s] = "startdt"]
    /\ UNCHANGED <<clientVars, tableVars, sessions, panicked, callerVars,
                   schedVars, hpc, hmsg, hidx, nmsgs, nevents, handed, dataNote>>

\* the on-connect handler: client.SendStartDt() on the session that connected
OnConnectStartDt(s) ==
    /\ opc[s] = "startdt"
    /\ handed' = [handed EXCEPT
                    !["transport"] = <<Handed(StartDt, s, CanTransmit(s))>>]
    /\ opc' = [opc EXCEPT ![s] = "idle"]
    /\ UNCHANGED <<clientVars, tableVars, sessions, panicked, callerVars,
                   schedVars, hpc, hmsg, hidx, nmsgs, nevents, connNote,
                   dataNote>>

\* mutant: the connection-lost handler stores false and tells nobody
OnConnectionLostQuiet(s) ==
    /\ sessions[s] \in {"up", "closing"}
    /\ opc[s] = "idle"
    /\ sessions' = [sessions EXCEPT
                      ![s] = IF sessions[s] = "up" THEN "connecting" ELSE "closed"]
    /\ Connected' = FALSE
    /\ UNCHANGED <<client, serverIP, serverPort, commonAddr, closer, mu,
                   connectionStateHandler, dataHandler, tableVars, panicked,
                   callerVars, schedVars, handlerVars, nevents, logVars>>

\* the connection-lost handler set by Connect, run by session s when its
\* connection ends, after its on-connect handler has returned:
\* Connected.Store(false), the callback. A session that was not closed
\* reconnects by itself (SetAutoReconnect(true)).
OnConnectionLost(s) ==
    /\ sessions[s] \in {"up", "closing"}
    /\ opc[s] = "idle"
    /\ sessions' = [sessions EXCEPT
                      ![s] = IF sessions[s] = "up" THEN "connecting" ELSE "closed"]
    /\ Connected' = FALSE
    /\ connNote' = NotifyConnection(FALSE, s)
    /\ UNCHANGED <<client, serverIP, serverPort, commonAddr, closer, mu,
                   connectionStateHandler, dataHandler, tableVars, panicked,
                   callerVars, schedVars, handlerVars, nevents, handed,
                   dataNote>>

\* the decoded ASDUs a session may deliver
InPoints(typ) ==
    [Ioa : InAddrs, Value : IF typ = "M_SP_NA_1" THEN BOOLEAN ELSE FloatVals]

SeqsUpTo(S, n) == UNION {[1..k -> S] : k \in 0..n}

InMsgs ==
    UNION {[ca : CommonAddrs, typ : {t}, pts : SeqsUpTo(InPoints(t), MaxPoints)]
           : t \in InTypes}

\* the handler is not running: no message yet ("idle"), or the last message
\* was dropped for its common address ("dropped"), was of a type of the default
\* case ("ignored"), or went through the loop over its points ("done")
HandlerIdle == {"idle", "dropped", "ignored", "done"}

\* the transport calls c.ASDUHandler(client, a) with a decoded message
Deliver(s) ==
    /\ sessions[s] = "up"
    /\ hpc \in HandlerIdle
    /\ nmsgs < MaxMsgs
    /\ nmsgs' = nmsgs + 1
    /\ \E m \in InMsgs : hmsg' = m
    /\ hpc' = "check"
    /\ hidx' = 0
    /\ UNCHANGED <<clientVars, tableVars, sessions, panicked, callerVars,
                   schedVars, nevents, opc, logVars>>

\* mutant: no common address is refused
AcceptsAny(m) == TRUE

\* ASDUHandler: if a.CommonAddr != asdu.CommonAddr(c.commonAddr) { return nil }
Accepts(m) == m.ca = CommonAddr(commonAddr)

\* ASDUHandler: the common address check and the switch on the type; a type
\* of the default case is logged and dropped
ASDUHandlerCheck ==
    /\ hpc = "check"
    /\ IF Accepts(hmsg) /\ hmsg.typ \in HandledTypes /\ Len(hmsg.pts) > 0
       THEN /\ hpc' = "store"
            /\ hidx' = 1
            /\ UNCHANGED hmsg
       ELSE /\ hpc' = IF ~Accepts(hmsg) THEN "dropped"
                      ELSE IF hmsg.typ \notin HandledTypes THEN "ignored"
                      ELSE "done"
            /\ hidx' = 0
            /\ hmsg' = NoMsg
    /\ UNCHANGED <<clientVars, tableVars, sessions, panicked, callerVars,
                   schedVars, nevents, nmsgs, opc, logVars>>

\* the DataType of the table a handled message type is stored in
TableOf(typ) == IF typ = "M_SP_NA_1" THEN "Teleindication" ELSE "Telemetry"

\* mutant: the key is the address less the base of the measured values
StoreKeyLessBase(d) == d.Ioa - 16385

\* the key of the stored point: int(d.Ioa)
StoreKey(d) == d.Ioa

\* the value stored and passed to the callback: float64(d.Value) for the
\* measured values, d.Value for the single points
StoreValue(typ, d) == IF typ = "M_SP_NA_1" THEN d.Value ELSE Float64(d.Value)

\* ASDUHandler: c.Telemetry[int(d.Ioa)] = TelemetryPoint{...} or
\* c.Teleindication[int(d.Ioa)] = TeleindPoint{...}
ASDUHandlerStore ==
    /\ hpc = "store"
    /\ LET d == hmsg.pts[hidx]
           pt == [Address |-> d.Ioa, Value |-> StoreValue(hmsg.typ, d)]
       IN IF TableOf(hmsg.typ) = "Telemetry"
          THEN /\ Telemetry' = MapSet(Telemetry, StoreKey(d), pt)
               /\ UNCHANGED Teleindication
          ELSE /\ Teleindication' = MapSet(Teleindication, StoreKey(d), pt)
               /\ UNCHANGED Telemetry
    /\ hpc' = "notify"
    /\ UNCHANGED <<clientVars, Telecontrol, Teleregulation, sessions, panicked,
                   callerVars, schedVars, hmsg, hidx, nevents, nmsgs, opc,
                   logVars>>

\* ASDUHandler: if c.dataHandler != nil { c.dataHandler(typ, int(d.Ioa), value) }
\* and the next point of the range loop
ASDUHandlerNotify ==
    /\ hpc = "notify"
    /\ LET d == hmsg.pts[hidx] IN
       dataNote' = IF dataHandler # NoHandler
                   THEN [handler |-> dataHandler, typ |-> TableOf(hmsg.typ),
                         iot |-> d.Ioa, data |-> StoreValue(hmsg.typ, d),
                         n |-> dataNote.n + 1]
                   ELSE dataNote
    /\ IF hidx < Len(hmsg.pts)
       THEN /\ hidx' = hidx + 1
            /\ hpc' = "store"
            /\ UNCHANGED hmsg
       ELSE /\ hidx' = 0
            /\ hpc' = "done"
            /\ hmsg' = NoMsg
    /\ UNCHANGED <<clientVars, tableVars, sessions, panicked, callerVars,
                   schedVars, nevents, nmsgs, opc, handed, connNote>>

\* ------------------------------------------------------------ specification
\* every step a caller thread can take
CallerStep(p) ==
    \/ Call(p)
    \/ RegisterConnectionStateHandler(p)
    \/ RegisterDataHandler(p)
    \/ UpdateConfigLock(p)
    \/ UpdateConfigIP(p)
    \/ UpdateConfigPort(p)
    \/ UpdateConfigCA(p)
    \/ ConnectCheck(p)
    \/ ConnectLock(p)
    \/ ConnectStart(p)
    \/ DisconnectCheck(p)
    \/ DisconnectClose(p)
    \/ Close(p)
    \/ SendTelecontrolCheck(p)
    \/ SendTelecontrolSelect(p)
    \/ SendTelecontrolExecute(p)
    \/ SendTelemetryCheck(p)
    \/ SendTelemetrySend(p)
    \/ showTelecontrolDialog(p)
    \/ showTeleregulationDialog(p)
    \/ updateTableData(p)
    \/ Returned(p)

\* func (c *IEC104Client) run(callInterval) with allCall
run ==
    \/ RunSleep
    \/ RunTimer
    \/ RunClosed
    \/ AllCallCheck
    \/ AllCallSend

\* the connection events of the sessions
ConnectionEvents ==
    \/ \E s \in Sessions : OnConnect(s)
    \/ \E s \in Sessions : OnConnectNotify(s)
    \/ \E s \in Sessions : OnConnectStartDt(s)
    \/ \E s \in Sessions : OnConnectionLost(s)

\* func (c *IEC104Client) ASDUHandler(client, a), called by a session
ASDUHandler ==
    \/ \E s \in Sessions : Deliver(s)
    \/ ASDUHandlerCheck
    \/ ASDUHandlerStore
    \/ ASDUHandlerNotify

\* The whole client. A panic ends the process.
Next ==
    /\ ~panicked
    /\ \/ \E p \in Callers : CallerStep(p)
       \/ run
       \/ ConnectionEvents
       \/ ASDUHandler

Spec == Init /\ [][Next]_vars

\* The connection manager, the command dispatcher and the interrogation
\* scheduler: the callers connect, disconnect, close and send commands, the
\* sessions connect and lose their connection, run ticks.
OpsClient ==
    {a \in Ops : a.op \in {"Connect", "Disconnect", "Close", "SendTelecontrol",
                           "SendTelemetry"}}

CallerStepClient(p) ==
    \/ CallOf(p, OpsClient)
    \/ ConnectCheck(p)
    \/ ConnectLock(p)
    \/ ConnectStart(p)
    \/ DisconnectCheck(p)
    \/ DisconnectClose(p)
    \/ Close(p)
    \/ SendTelecontrolCheck(p)
    \/ SendTelecontrolSelect(p)
    \/ SendTelecontrolExecute(p)
    \/ SendTelemetryCheck(p)
    \/ SendTelemetrySend(p)
    \/ showTelecontrolDialog(p)
    \/ showTeleregulationDialog(p)
    \/ Returned(p)

NextClient ==
    /\ ~panicked
    /\ \/ \E p \in Callers : CallerStepClient(p)
       \/ run
       \/ ConnectionEvents

SpecClient == Init /\ [][NextClient]_vars

\* The ingestion handler: the UI thread connects, changes the configuration and
\* registers data handlers, the sessions connect, lose their connection and
\* deliver decoded messages.
UIThread == "u1"

OpsIngest ==
    {a \in Ops : a.op \in {"Connect", "UpdateConfig", "RegisterDataHandler"}}

CallerStepIngest(p) ==
    \/ CallOf(p, OpsIngest)
    \/ ConnectCheck(p)
    \/ ConnectLock(p)
    \/ ConnectStart(p)
    \/ UpdateConfigLock(p)
    \/ UpdateConfigIP(p)
    \/ UpdateConfigPort(p)
    \/ UpdateConfigCA(p)
    \/ RegisterDataHandler(p)
    \/ Returned(p)

NextIngest ==
    \/ CallerStepIngest(UIThread)
    \/ ConnectionEvents
    \/ ASDUHandler

SpecIngest == Init /\ [][NextIngest]_vars

\* The event fan-out: the UI thread connects and registers handlers in the two
\* slots, the sessions connect, lose their connection and deliver decoded
\* messages.
OpsFanout ==
    {a \in Ops : a.op \in {"Connect", "RegisterConnectionStateHandler",
                           "RegisterDataHandler"}}

CallerStepFanout(p) ==
    \/ CallOf(p, OpsFanout)
    \/ ConnectCheck(p)
    \/ ConnectLock(p)
    \/ ConnectStart(p)
    \/ RegisterConnectionStateHandler(p)
    \/ RegisterDataHandler(p)
    \/ Returned(p)

NextFanout ==
    \/ CallerStepFanout(UIThread)
    \/ ConnectionEvents
    \/ ASDUHandler

SpecFanout == Init /\ [][NextFanout]_vars

\* The scheduler under a changing configuration: the UI thread connects, saves
\* configurations and closes the client, the sessions connect and lose their
\* connection, run ticks.
OpsInterval == {a \in Ops : a.op \in {"Connect", "UpdateConfig", "Close"}}

CallerStepInterval(p) ==
    \/ CallOf(p, OpsInterval)
    \/ ConnectCheck(p)
    \/ ConnectLock(p)
    \/ ConnectStart(p)
    \/ UpdateConfigLock(p)
    \/ UpdateConfigIP(p)
    \/ UpdateConfigPort(p)
    \/ UpdateConfigCA(p)
    \/ Close(p)
    \/ DisconnectCheck(p)
    \/ DisconnectClose(p)
    \/ Returned(p)

NextInterval ==
    /\ ~panicked
    /\ \/ CallerStepInterval(UIThread)
       \/ run
       \/ ConnectionEvents

SpecInterval == Init /\ [][NextInterval]_vars

\* The point registry: the UI thread connects, disconnects and sends one
\* command of each kind to the first offset with its echo, the sessions
\* connect, lose their connection and deliver decoded messages.
OpsRegistry ==
    {a \in Ops :
        \/ a.op \in {"Connect", "Disconnect"}
        \/ a.op = "SendTelecontrol" /\ a.offset = 0 /\ a.value
        \/ a.op = "SendTelemetry" /\ a.offset = 0 /\ a.value = MaxValue}

CallerStepRegistry(p) ==
    \/ CallOf(p, OpsRegistry)
    \/ ConnectCheck(p)
    \/ ConnectLock(p)
    \/ ConnectStart(p)
    \/ DisconnectCheck(p)
    \/ DisconnectClose(p)
    \/ SendTelecontrolCheck(p)
    \/ SendTelecontrolSelect(p)
    \/ SendTelecontrolExecute(p)
    \/ SendTelemetryCheck(p)
    \/ SendTelemetrySend(p)
    \/ showTelecontrolDialog(p)
    \/ showTeleregulationDialog(p)
    \/ Returned(p)

NextRegistry ==
    /\ ~panicked
    /\ \/ CallerStepRegistry(UIThread)
       \/ ConnectionEvents
       \/ ASDUHandler

SpecRegistry == Init /\ [][NextRegistry]_vars

\* The point tables between the UI thread and the transport: the UI thread
\* connects, switches tabs (which redraws the table from the client's map) and
\* sends a single command with its echo, the sessions connect, lose their
\* connection and deliver decoded messages.
OpsTables ==
    {a \in Ops :
        \/ a.op \in {"Connect", "switchTab"}
        \/ a.op = "SendTelecontrol" /\ a.offset = 0 /\ a.value}

CallerStepTables(p) ==
    \/ CallOf(p, OpsTables)
    \/ ConnectCheck(p)
    \/ ConnectLock(p)
    \/ ConnectStart(p)
    \/ SendTelecontrolCheck(p)
    \/ SendTelecontrolSelect(p)
    \/ SendTelecontrolExecute(p)
    \/ showTelecontrolDialog(p)
    \/ updateTableData(p)
    \/ Returned(p)

NextTables ==
    /\ ~panicked
    /\ \/ CallerStepTables(UIThread)
       \/ ConnectionEvents
       \/ ASDUHandler

SpecTables == Init /\ [][NextTables]_vars

\* The common address of the outbound messages: the UI thread connects, saves a
\* configuration with another common address and sends one command of each
\* kind, the sessions connect and lose their connection, run ticks and is not
\* stopped.
OpsCommonAddr ==
    {a \in Ops :
        \/ a.op = "Connect"
        \/ a.op = "UpdateConfig" /\ a.ca # DefaultCommonAddr
        \/ a.op = "SendTelecontrol" /\ a.offset = 0 /\ a.value
        \/ a.op = "SendTelemetry" /\ a.offset = 0 /\ a.value = MaxValue}

CallerStepCommonAddr(p) ==
    \/ CallOf(p, OpsCommonAddr)
    \/ ConnectCheck(p)
    \/ ConnectLock(p)
    \/ ConnectStart(p)
    \/ UpdateConfigLock(p)
    \/ UpdateConfigIP(p)
    \/ UpdateConfigPort(p)
    \/ UpdateConfigCA(p)
    \/ SendTelecontrolCheck(p)
    \/ SendTelecontrolSelect(p)
    \/ SendTelecontrolExecute(p)
    \/ SendTelemetryCheck(p)
    \/ SendTelemetrySend(p)
    \/ showTelecontrolDialog(p)
    \/ showTeleregulationDialog(p)
    \/ Returned(p)

NextCommonAddr ==
    \/ CallerStepCommonAddr(UIThread)
    \/ RunSleep
    \/ RunTimer
    \/ AllCallCheck
    \/ AllCallSend
    \/ ConnectionEvents

SpecCommonAddr == Init /\ [][NextCommonAddr]_vars

\* The reconnect configuration under concurrent callers: two threads connect
\* and update the configuration, the sessions connect and lose their
\* connection.
OpsConfig == {a \in Ops : a.op \in {"Connect", "UpdateConfig"}}

CallerStepConfig(p) ==
    \/ CallOf(p, OpsConfig)
    \/ ConnectCheck(p)
    \/ ConnectLock(p)
    \/ ConnectStart(p)
    \/ UpdateConfigLock(p)
    \/ UpdateConfigIP(p)
    \/ UpdateConfigPort(p)
    \/ UpdateConfigCA(p)
    \/ Returned(p)

NextConfig ==
    \/ \E p \in Callers : CallerStepConfig(p)
    \/ ConnectionEvents

SpecConfig == Init /\ [][NextConfig]_vars

\* The life of the scheduler: the UI thread connects and closes the client, the
\* sessions connect and lose their connection, run ticks. The goroutine of run
\* is scheduled fairly: its sleep ends, allCall goes on (the transport's send
\* does not block), and a select whose stop case is ready again and again takes
\* it (Go's select chooses among its ready cases at random).
OpsSched == {a \in Ops : a.op \in {"Connect", "Close"}}

CallerStepSched(p) ==
    \/ CallOf(p, OpsSched)
    \/ ConnectCheck(p)
    \/ ConnectLock(p)
    \/ ConnectStart(p)
    \/ Close(p)
    \/ DisconnectCheck(p)
    \/ DisconnectClose(p)
    \/ Returned(p)

NextSched ==
    /\ ~panicked
    /\ \/ \E p \in Callers : CallerStepSched(p)
       \/ run
       \/ ConnectionEvents

FairSched ==
    /\ WF_vars(~panicked /\ RunSleep)
    /\ WF_vars(~panicked /\ AllCallCheck)
    /\ WF_vars(~panicked /\ AllCallSend)
    /\ SF_vars(~panicked /\ RunClosed)

SpecSched == Init /\ [][NextSched]_vars /\ FairSched

\* ------------------------------------------------------------------ claims
\* thread t hands one more message to the transport in this step
HandsOver(t) == Len(handed'[t]) > Len(handed[t])

\* the message thread t hands over in this step
HandedOver(t) == handed'[t][Len(handed'[t])]

\* thread p takes a step from position l
StepsFrom(p, l) == pc[p] = l /\ pc'[p] # l

\* C1: a SendTelecontrol(offset, v) call that returns nil has handed exactly two
\* single commands to the transport, the first with the select qualifier and
\* the second without it, both to ioa = offset + 24577 with value v; and while
\* the call is between the two, no other thread hands over a message to that ioa.
C1_TwoPhase ==
    \A p \in Callers :
        (pc[p] = "ret" /\ arg[p].op = "SendTelecontrol" /\ err[p] = "nil") =>
            /\ Len(handed[p]) = 2
            /\ \A i \in 1..2 :
                /\ handed[p][i].msg.typ = "C_SC_NA_1"
                /\ handed[p][i].msg.ioa = arg[p].offset + 24577
                /\ handed[p][i].msg.val = arg[p].value
                /\ handed[p][i].ok
            /\ handed[p][1].msg.sel
            /\ ~handed[p][2].msg.sel

C1_NoneBetween ==
    \A p \in Callers :
        (pc[p] = "tc_execute" /\ Len(handed[p]) = 1) =>
            /\ \A t \in (Callers \cup {"run"}) \ {p} :
                HandsOver(t) => HandedOver(t).msg.ioa # arg[p].offset + 24577
            /\ handed'["transport"] # handed["transport"] =>
                \A i \in 1..Len(handed'["transport"]) :
                    handed'["transport"][i].msg.ioa # arg[p].offset + 24577

C1_SelectThenExecute == [](C1_TwoPhase) /\ [][C1_NoneBetween]_vars

\* a SendTelecontrol call has returned nil while the other caller, which sends
\* to the same ioa, has passed its connection check and waits
C1_Witness ==
    \E p, q \in Callers :
        /\ p # q
        /\ pc[p] = "ret" /\ arg[p].op = "SendTelecontrol" /\ err[p] = "nil"
        /\ Len(handed[p]) = 2
        /\ pc[q] = "tm_send"
        /\ TeleregulationIoa(arg[q].offset) = TelecontrolIoa(arg[p].offset)

\* C2: a SendTelecontrol or SendTelemetry call whose connection check finds the
\* Connected flag false or no session returns ErrorNoConnection at once and
\* has handed no message to the transport.
C2_Step ==
    \A p \in Callers :
        ((StepsFrom(p, "tc_check") \/ StepsFrom(p, "tm_check"))
            /\ (~Connected \/ client = NoSession)) =>
            /\ pc'[p] = "ret_guard"
            /\ err'[p] = "ErrorNoConnection"
            /\ handed' = handed

C2_State ==
    \A p \in Callers :
        (HasReturned(p) /\ arg[p].op \in {"SendTelecontrol", "SendTelemetry"}
            /\ (pc[p] = "ret_guard" \/ err[p] = "ErrorNoConnection")) =>
            /\ pc[p] = "ret_guard"
            /\ err[p] = "ErrorNoConnection"
            /\ handed[p] = <<>>

C2_NoConnection == [](C2_State) /\ [][C2_Step]_vars

\* a send has returned ErrorNoConnection although a session exists
C2_Witness ==
    \E p \in Callers :
        /\ pc[p] = "ret_guard"
        /\ arg[p].op = "SendTelecontrol"
        /\ err[p] = "ErrorNoConnection"
        /\ client # NoSession
        /\ handed[p] = <<>>

\* C3: a SendTelemetry(offset, v) call that passed its connection check has, when
\* it returns, handed exactly one message to the transport: a setpoint command
\* with ioa = offset + 25089, cause activation and no select qualifier.
C3_OneSetpoint ==
    \A p \in Callers :
        arg[p].op = "SendTelemetry" =>
            /\ Len(handed[p]) = IF pc[p] = "ret" THEN 1 ELSE 0
            /\ \A i \in 1..Len(handed[p]) :
                /\ handed[p][i].msg.typ = "C_SE_NC_1"
                /\ handed[p][i].msg.ioa = arg[p].offset + 25089
                /\ handed[p][i].msg.cause = "Activation"
                /\ ~handed[p][i].msg.sel

\* a SendTelemetry call has returned nil for the largest offset
C3_Witness ==
    \E p \in Callers :
        /\ pc[p] = "ret"
        /\ arg[p].op = "SendTelemetry"
        /\ arg[p].offset = MaxOffsetIdx * OffsetStep
        /\ err[p] = "nil"
        /\ Len(handed[p]) = 1

\* C4: when the handler checks a message whose common address differs from the
\* configured one, the message is dropped: the four tables stay as they are and
\* no data callback is invoked, in that step and for as long as the message is
\* the last one delivered.
C4_Dropped ==
    /\ (hpc = "check" /\ hpc' # "check" /\ hmsg.ca # commonAddr) =>
        /\ hpc' = "dropped"
        /\ Telemetry' = Telemetry
        /\ Teleindication' = Teleindication
        /\ Telecontrol' = Telecontrol
        /\ Teleregulation' = Teleregulation
        /\ dataNote' = dataNote
    /\ hpc = "dropped" =>
        /\ Telemetry' = Telemetry
        /\ Teleindication' = Teleindication
        /\ dataNote' = dataNote

C4_ForeignAddressDropped == [][C4_Dropped]_vars

\* a message was dropped after UpdateConfig changed the common address, with a
\* data handler registered
C4_Witness ==
    /\ hpc = "dropped"
    /\ nmsgs = 1
    /\ commonAddr # 1
    /\ dataHandler # NoHandler
    /\ dataNote.n = 0
    /\ Telemetry = EmptyMap
    /\ Teleindication = EmptyMap

\* C5: for every point (a, x) of an accepted message of a handled type, the
\* handler first stores the point under key a in the table of the type
\* (Telemetry for the measured values, Teleindication for the single points),
\* whether or not a data handler is registered, and then invokes the registered
\* data handler with (type, a, x); it does so for each point in turn.
C5_Accepted ==
    (hpc = "check" /\ hpc' # "check" /\ hmsg.ca = commonAddr
        /\ hmsg.typ \in {"M_ME_NC_1", "M_ME_NA_1", "M_ME_ND_1", "M_ME_NB_1",
                         "M_SP_NA_1"}
        /\ Len(hmsg.pts) > 0) =>
        /\ hpc' = "store"
        /\ hidx' = 1
        /\ hmsg' = hmsg

C5_Store ==
    (hpc = "store" /\ hpc' # "store") =>
        LET a == hmsg.pts[hidx].Ioa
            x == hmsg.pts[hidx].Value
        IN /\ hpc' = "notify"
           /\ dataNote' = dataNote
           /\ hidx' = hidx /\ hmsg' = hmsg
           /\ Telecontrol' = Telecontrol
           /\ Teleregulation' = Teleregulation
           /\ IF hmsg.typ = "M_SP_NA_1"
              THEN /\ DOMAIN Teleindication' = DOMAIN Teleindication \cup {a}
                   /\ Teleindication'[a].Value = x
                   /\ \A k \in DOMAIN Teleindication \ {a} :
                        Teleindication'[k] = Teleindication[k]
                   /\ Telemetry' = Telemetry
              ELSE /\ DOMAIN Telemetry' = DOMAIN Telemetry \cup {a}
                   /\ Telemetry'[a].Value = x
                   /\ \A k \in DOMAIN Telemetry \ {a} :
                        Telemetry'[k] = Telemetry[k]
                   /\ Teleindication' = Teleindication

C5_Notify ==
    (hpc = "notify" /\ hpc' # "notify") =>
        LET a == hmsg.pts[hidx].Ioa
            x == hmsg.pts[hidx].Value
            ty == IF hmsg.typ = "M_SP_NA_1" THEN "Teleindication" ELSE "Telemetry"
        IN /\ Telemetry' = Telemetry
           /\ Teleindication' = Teleindication
           /\ IF dataHandler # NoHandler
              THEN dataNote' = [handler |-> dataHandler, typ |-> ty, iot |-> a,
                                data |-> x, n |-> dataNote.n + 1]
              ELSE dataNote' = dataNote
           /\ IF hidx < Len(hmsg.pts)
              THEN hpc' = "store" /\ hidx' = hidx + 1 /\ hmsg' = hmsg
              ELSE hpc' = "done"

C5_OnlyAfterStore == dataNote' # dataNote => hpc = "notify"

C5_Stored ==
    hpc = "notify" =>
        LET a == hmsg.pts[hidx].Ioa
            x == hmsg.pts[hidx].Value
        IN IF hmsg.typ = "M_SP_NA_1"
           THEN a \in DOMAIN Teleindication /\ Teleindication[a].Value = x
           ELSE a \in DOMAIN Telemetry /\ Telemetry[a].Value = x

C5_StoreThenNotify ==
    [](C5_Stored)
    /\ [][C5_Accepted /\ C5_Store /\ C5_Notify /\ C5_OnlyAfterStore]_vars

\* a message of two single points was stored with no data handler registered
C5_Witness ==
    /\ hpc = "done"
    /\ dataHandler = NoHandler
    /\ dataNote.n = 0
    /\ DOMAIN Teleindication = {100, 16385}
    /\ Teleindication[100].Value = TRUE
    /\ Teleindication[16385].Value = FALSE

\* C6: when the dialog takes the result of SendTelecontrol(offset, v) or
\* SendTelemetry(offset, x), a nil result writes the entry with value v (or x)
\* under key offset of the Telecontrol (or Teleregulation) table and nowhere
\* else, and an error writes nothing; the two tables change in no other step,
\* so no key of them is a wire ioa.
C6_Echo ==
    \A p \in Callers :
        (HasReturned(p) /\ pc'[p] = "idle") =>
            /\ IF arg[p].op = "SendTelecontrol" /\ err[p] = "nil"
               THEN /\ DOMAIN Telecontrol' = DOMAIN Telecontrol \cup {arg[p].offset}
                    /\ Telecontrol'[arg[p].offset].Value = arg[p].value
                    /\ \A k \in DOMAIN Telecontrol \ {arg[p].offset} :
                         Telecontrol'[k] = Telecontrol[k]
               ELSE Telecontrol' = Telecontrol
            /\ IF arg[p].op = "SendTelemetry" /\ err[p] = "nil"
               THEN /\ DOMAIN Teleregulation' = DOMAIN Teleregulation \cup {arg[p].offset}
                    /\ Teleregulation'[arg[p].offset].Value = arg[p].value
                    /\ \A k \in DOMAIN Teleregulation \ {arg[p].offset} :
                         Teleregulation'[k] = Teleregulation[k]
               ELSE Teleregulation' = Teleregulation

C6_OnlyEcho ==
    (Telecontrol' # Telecontrol \/ Teleregulation' # Teleregulation) =>
        \E p \in Callers : HasReturned(p) /\ pc'[p] = "idle" /\ err[p] = "nil"

C6_NoWireKey ==
    /\ \A k \in DOMAIN Telecontrol : \A o \in Offsets : k # o + 24577
    /\ \A k \in DOMAIN Teleregulation : \A o \in Offsets : k # o + 25089

C6_EchoUnderOffset == [](C6_NoWireKey) /\ [][C6_Echo /\ C6_OnlyEcho]_vars

\* both echoes were written under the offset of their command, the setpoint
\* with the value as it was passed to SendTelemetry
C6_Witness ==
    /\ DOMAIN Telecontrol = {512}
    /\ Telecontrol[512].Value = TRUE
    /\ DOMAIN Teleregulation = {0}
    /\ Teleregulation[0].Value = 1

\* C7: on each tick allCall loads the Connected flag; if it is false the tick
\* hands nothing to the transport and run goes back to wait for the next tick;
\* if it is true the tick hands exactly one station interrogation to the
\* transport and run goes back to wait for the next tick whether or not the
\* transmission succeeded. Nothing is handed over by run outside a tick.
C7_Tick ==
    /\ (spc = "ac_check" /\ spc' # "ac_check") =>
        /\ handed' = handed
        /\ spc' = IF Connected THEN "ac_send" ELSE "select"
    /\ (spc = "ac_send" /\ spc' # "ac_send") =>
        /\ Len(handed'["run"]) = Len(handed["run"]) + 1
        /\ handed'["run"][Len(handed'["run"])].msg.typ = "C_IC_NA_1"
        /\ handed'["run"][Len(handed'["run"])].msg.qoi = "QOIStation"
        /\ spc' = "select"
        /\ nticks' = nticks
    /\ (spc \in {"sleep", "select"} /\ spc' # spc) =>
        /\ spc' \in {"ac_check", "exited"}
        /\ spc' = "ac_check" => nticks' = nticks + 1
    /\ handed'["run"] # handed["run"] =>
        spc \in {"sleep", "select", "ac_send"} /\ spc' # spc

C7_PerTick ==
    /\ (spc \in {"select", "exited"} /\ nticks > 0) =>
        Len(handed["run"]) = IF sawConnected THEN 1 ELSE 0
    /\ spc \in {"ac_check", "ac_send"} => handed["run"] = <<>>

C7_OneInterrogationPerTick == [](C7_PerTick) /\ [][C7_Tick]_vars

\* the second tick has sent its interrogation, and the transmission failed
C7_Witness ==
    /\ nticks = 2
    /\ spc = "select"
    /\ sawConnected
    /\ Len(handed["run"]) = 1
    /\ ~handed["run"][1].ok

\* C8: a Connect call that finds the Connected flag true returns nil at once:
\* that step creates no session, leaves the session handle as it is, invokes
\* no connectivity callback and hands nothing to the transport.
C8_Step ==
    \A p \in Callers :
        (StepsFrom(p, "cn_check") /\ Connected) =>
            /\ pc'[p] = "ret_guard"
            /\ err'[p] = "nil"
            /\ client' = client
            /\ sessions' = sessions
            /\ Connected' = Connected
            /\ connNote' = connNote
            /\ handed' = handed

C8_State ==
    \A p \in Callers :
        (pc[p] = "ret_guard" /\ arg[p].op = "Connect") =>
            err[p] = "nil" /\ client # NoSession

C8_ConnectWhenConnected == [](C8_State) /\ [][C8_Step]_vars

\* a second Connect has returned at the guard: there is still one session and
\* one notification
C8_Witness ==
    \E p \in Callers :
        /\ pc[p] = "ret_guard"
        /\ arg[p].op = "Connect"
        /\ Connected
        /\ NumCreated = 1
        /\ connNote.n = 1
        /\ connNote.value

\* C9: a Disconnect call that finds the Connected flag true goes on to close
\* the session; the step that closes it leaves the current session closing or
\* closed, stores false in the Connected flag and returns nil, without any
\* step of the transport in between.
C9_Step ==
    \A p \in Callers :
        /\ (StepsFrom(p, "dc_check") /\ Connected) => pc'[p] = "dc_close"
        /\ StepsFrom(p, "dc_close") =>
            /\ client' = client
            /\ sessions'[client] \in {"closing", "closed"}
            /\ \A s \in Sessions \ {client} : sessions'[s] = sessions[s]
            /\ Connected' = FALSE
            /\ pc'[p] = "ret"
            /\ err'[p] = "nil"
            /\ connNote' = connNote

C9_State ==
    \A p \in Callers :
        pc[p] = "dc_close" => client # NoSession

C9_DisconnectCloses == [](C9_State) /\ [][C9_Step]_vars

\* Disconnect has returned: the flag is false while the session it closed still
\* waits for the end of its connection
C9_Witness ==
    \E p \in Callers :
        /\ pc[p] = "ret"
        /\ arg[p].op = "Disconnect"
        /\ sessions[client] = "closing"
        /\ ~Connected

\* C10: a Disconnect call that finds the Connected flag false or no session
\* returns nil at once: that step closes nothing, leaves the flag and the
\* session handle as they are and invokes no connectivity callback.
C10_Step ==
    \A p \in Callers :
        (StepsFrom(p, "dc_check") /\ (~Connected \/ client = NoSession)) =>
            /\ pc'[p] = "ret_guard"
            /\ err'[p] = "nil"
            /\ sessions' = sessions
            /\ Connected' = Connected
            /\ client' = client
            /\ connNote' = connNote
            /\ handed' = handed

C10_State ==
    \A p \in Callers :
        (pc[p] = "ret_guard" /\ arg[p].op = "Disconnect") => err[p] = "nil"

C10_DisconnectIdempotent == [](C10_State) /\ [][C10_Step]_vars

\* a Disconnect has returned at the guard after an earlier Disconnect closed
\* the session
C10_Witness ==
    \E p \in Callers :
        /\ pc[p] = "ret_guard"
        /\ arg[p].op = "Disconnect"
        /\ client # NoSession
        /\ sessions[client] \in {"closing", "closed"}
        /\ ~Connected
        /\ connNote.n = 1

\* C11: once Close has closed the stop channel, run hands no interrogation to
\* the transport any more, wherever it was when the channel was closed.
C11_NoInterrogationAfterClose == [][closer = "closed" => ~HandsOver("run")]_vars

\* C12: a Close call gets past close(c.closer) only when the stop channel is
\* open: it closes the channel, goes on to Disconnect and returns nil. A Close
\* call that finds the channel closed panics: the process takes no further
\* step and the call never returns. Nothing else closes the channel.
C12_Step ==
    /\ \A p \in Callers :
        StepsFrom(p, "cl_close") =>
            /\ closer = "open"
            /\ closer' = "closed"
            /\ pc'[p] = "dc_check"
            /\ panicked' = panicked
    /\ closer' # closer => \E p \in Callers : StepsFrom(p, "cl_close")
    /\ panicked' # panicked =>
        /\ panicked'
        /\ closer = "closed"
        /\ \E p \in Callers : pc[p] = "cl_close" /\ pc'[p] = "cl_close"
    /\ ~panicked

C12_State ==
    /\ \A p \in Callers :
        (HasReturned(p) /\ arg[p].op = "Close") =>
            err[p] = "nil" /\ closer = "closed"
    /\ panicked => closer = "closed"

C12_SecondClosePanics == [](C12_State) /\ [][C12_Step]_vars

\* a second Close has panicked after the first one returned
C12_Witness ==
    /\ panicked
    /\ closer = "closed"
    /\ \E p \in Callers : pc[p] = "cl_close" /\ arg[p].op = "Close"
    /\ ncalls = 2

\* C13: each slot holds the handler of its latest registration: a registration
\* replaces the handler of its slot and leaves the other slot as it is, the
\* slots change in no other step, and every event invokes at most one
\* callback, the handler its slot holds when the event is delivered, also when
\* the session of the event was started before that registration.
C13_Step ==
    /\ \A p \in Callers :
        /\ StepsFrom(p, "rc_set") =>
            /\ connectionStateHandler' = arg[p].handler
            /\ dataHandler' = dataHandler
        /\ StepsFrom(p, "rd_set") =>
            /\ dataHandler' = arg[p].handler
            /\ connectionStateHandler' = connectionStateHandler
    /\ connectionStateHandler' # connectionStateHandler =>
        \E p \in Callers : StepsFrom(p, "rc_set")
    /\ dataHandler' # dataHandler =>
        \E p \in Callers : StepsFrom(p, "rd_set")
    /\ connNote' # connNote =>
        /\ connNote'.n = connNote.n + 1
        /\ connNote'.handler = connectionStateHandler
        /\ connectionStateHandler # NoHandler
    /\ dataNote' # dataNote =>
        /\ dataNote'.n = dataNote.n + 1
        /\ dataNote'.handler = dataHandler
        /\ dataHandler # NoHandler

C13_SingleSubscriber == [][C13_Step]_vars

\* the UI connected and then registered a second connectivity handler; the
\* session started before that registration has connected and the event went
\* to the second handler, with the data slot as it was
C13_Witness ==
    /\ pc[UIThread] = "ret"
    /\ arg[UIThread].op = "RegisterConnectionStateHandler"
    /\ ncalls = 2
    /\ connectionStateHandler = 2
    /\ dataHandler = 1
    /\ connNote.n = 1
    /\ connNote.handler = 2
    /\ connNote.value

\* C14: the timer of run is armed with the configured interrogation interval:
\* whenever run arms it while the client has just been updated with a
\* configuration, the period is the interval of that configuration.
C14_ConfiguredInterval ==
    [][\A p \in Callers :
        (HasReturned(p) /\ arg[p].op = "UpdateConfig"
            /\ timer' # timer /\ timer' # NoTimer) =>
            timer' = arg[p].interval]_vars

\* C15: a session becomes connected only through its on-connect handler, at its
\* first connect and at each reconnect, and the handler takes three steps in
\* this order: it stores true in the Connected flag; it invokes the registered
\* connectivity handler with true, or nothing when none is registered; it
\* sends STARTDT on the session that connected. No step does the work of
\* another one.
C15_Step ==
    \A s \in Sessions :
        /\ (sessions[s] # "up" /\ sessions'[s] = "up") =>
            /\ sessions[s] = "connecting"
            /\ opc[s] = "idle"
            /\ opc'[s] = "notify"
            /\ Connected'
            /\ connNote' = connNote
            /\ handed' = handed
        /\ (opc[s] = "notify" /\ opc'[s] # "notify") =>
            /\ opc'[s] = "startdt"
            /\ connNote' = IF connectionStateHandler # NoHandler
                           THEN [handler |-> connectionStateHandler,
                                 value |-> TRUE, sess |-> s,
                                 n |-> connNote.n + 1]
                           ELSE connNote
            /\ handed' = handed
            /\ Connected' = Connected
        /\ (opc[s] = "startdt" /\ opc'[s] # "startdt") =>
            /\ opc'[s] = "idle"
            /\ handed'["transport"][1].msg.typ = "STARTDT"
            /\ handed'["transport"][1].sess = s
            /\ Len(handed'["transport"]) = 1
            /\ connNote' = connNote
            /\ Connected' = Connected
        /\ (opc[s] = "idle" /\ opc'[s] # "idle") => opc'[s] = "notify"

C15_OnlyInHandler ==
    /\ (Connected' /\ ~Connected) =>
        \E s \in Sessions : sessions[s] = "connecting" /\ sessions'[s] = "up"
    /\ (connNote' # connNote /\ connNote'.value) =>
        opc[connNote'.sess] = "notify"
    /\ handed'["transport"] # handed["transport"] =>
        \E s \in Sessions : opc[s] = "startdt" /\ opc'[s] = "idle"

C15_OnConnectOrder == [][C15_Step /\ C15_OnlyInHandler]_vars

\* the one session has reconnected and its handler has run to its end: the
\* third notification was the second one with true, and STARTDT went to it
C15_Witness ==
    /\ NumCreated = 1
    /\ nevents = 2
    /\ opc[1] = "idle"
    /\ sessions[1] = "up"
    /\ Connected
    /\ connNote = [handler |-> 1, value |-> TRUE, sess |-> 1, n |-> 3]
    /\ handed["transport"] = <<Handed(StartDt, 1, TRUE)>>

\* C16: when a session loses its connection, its connection-lost handler stores
\* false in the Connected flag and invokes the registered connectivity handler
\* with false; a session that was not closed is connecting again afterwards,
\* and when it connects its on-connect handler stores true in the flag in a
\* step of the transport alone: no caller takes a step and no call is started.
C16_Step ==
    \A s \in Sessions :
        /\ (sessions[s] \in {"up", "closing"}
                /\ sessions'[s] \notin {"up", "closing"}) =>
            /\ ~Connected'
            /\ connNote' = IF connectionStateHandler # NoHandler
                           THEN [handler |-> connectionStateHandler,
                                 value |-> FALSE, sess |-> s,
                                 n |-> connNote.n + 1]
                           ELSE connNote
            /\ sessions'[s] = IF sessions[s] = "up" THEN "connecting" ELSE "closed"
            /\ pc' = pc
        /\ (sessions[s] = "connecting" /\ sessions'[s] = "up") =>
            /\ Connected'
            /\ pc' = pc
            /\ ncalls' = ncalls
            /\ client' = client

C16_LossThenReconnect == [][C16_Step]_vars

\* after one Connect call the session connected, lost its connection and has
\* connected again: the flag is true again and the last notification so far is
\* the one of the loss
C16_Witness ==
    /\ ncalls = 1
    /\ NumCreated = 1
    /\ nevents = 2
    /\ Connected
    /\ opc[1] = "notify"
    /\ connNote = [handler |-> 1, value |-> FALSE, sess |-> 1, n |-> 2]

C18_InSection(p) == pc[p] \in {"cn_start", "tc_execute"}

C18_State ==
    /\ \A p, q \in Callers : (C18_InSection(p) /\ C18_InSection(q)) => p = q
    /\ \A p \in Callers : C18_InSection(p) <=> mu = p
    /\ mu \in Callers \cup {"free"}

C18_Step ==
    \A p \in Callers :
        (C18_InSection(p) /\ pc'[p] = pc[p]) =>
            /\ \A q \in Callers \ {p} : ~HandsOver(q)
            /\ client' = client
            /\ \A s \in Sessions :
                /\ sessions'[s] = "closing" => sessions[s] = "closing"
                /\ (sessions'[s] = "closed" /\ sessions[s] # "closed") =>
                    sessions[s] = "closing"
                /\ sessions[s] = "none" => sessions'[s] = "none"
            /\ mu' = mu

C18_MutualExclusion == [](C18_State) /\ [][C18_Step]_vars

\* one caller is between its select and its execute command while the other
\* one, past the guard of Disconnect, waits for the mutex
C18_Witness ==
    \E p, q \in Callers :
        /\ pc[p] = "tc_execute"
        /\ Len(handed[p]) = 1
        /\ mu = p
        /\ pc[q] = "dc_close"
        /\ sessions[client] = "up"

\* C19: when the transport refuses the select command SendTelecontrol returns
\* the select error and has handed over nothing else; when it refuses the
\* execute command SendTelecontrol returns the execute error and has handed
\* over the two commands and nothing else; when it refuses the setpoint
\* SendTelemetry returns its error and has handed over that one message; a
\* call that has returned hands over nothing more.
C19_State ==
    \A p \in Callers :
        /\ (pc[p] = "ret" /\ arg[p].op = "SendTelecontrol") =>
            /\ err[p] \in {"nil", "send Select Command error",
                           "send Telecontrol Command error"}
            /\ err[p] = "send Select Command error" <=>
                /\ Len(handed[p]) = 1
                /\ handed[p][1].msg.sel
                /\ ~handed[p][1].ok
            /\ err[p] = "send Telecontrol Command error" <=>
                /\ Len(handed[p]) = 2
                /\ handed[p][1].msg.sel /\ handed[p][1].ok
                /\ ~handed[p][2].msg.sel /\ ~handed[p][2].ok
        /\ (pc[p] = "ret" /\ arg[p].op = "SendTelemetry") =>
            /\ err[p] \in {"nil", "send Telemetry Command error"}
            /\ Len(handed[p]) = 1
            /\ err[p] = "send Telemetry Command error" <=> ~handed[p][1].ok
        /\ pc[p] = "tc_execute" => (Len(handed[p]) = 1 /\ handed[p][1].ok)

C19_Step ==
    \A p \in Callers :
        /\ (HandsOver(p) /\ ~HandedOver(p).ok) => pc'[p] = "ret"
        /\ HasReturned(p) => ~HandsOver(p)

C19_FailureReturned == [](C19_State) /\ [][C19_Step]_vars

\* the execute command of a SendTelecontrol call was refused after its select
\* command had been accepted
C19_Witness ==
    \E p \in Callers :
        /\ pc[p] = "ret"
        /\ arg[p].op = "SendTelecontrol"
        /\ err[p] = "send Telecontrol Command error"
        /\ Len(handed[p]) = 2
        /\ sessions[client] = "up"

\* C20: in every step each of the four tables keeps all its keys; a step that
\* changes a table is one write (the store of the ingestion handler for
\* Telemetry and Teleindication, the echo of a command for Telecontrol and
\* Teleregulation), after which the written key holds the written value and
\* every other key holds what it held before.
C20_Written(T, Tnext, k, v) ==
    /\ DOMAIN Tnext = DOMAIN T \cup {k}
    /\ Tnext[k].Value = v
    /\ \A x \in DOMAIN T \ {k} : Tnext[x] = T[x]

C20_Step ==
    /\ Telemetry' # Telemetry =>
        /\ hpc = "store" /\ hmsg.typ # "M_SP_NA_1"
        /\ C20_Written(Telemetry, Telemetry', hmsg.pts[hidx].Ioa,
                       hmsg.pts[hidx].Value)
    /\ Teleindication' # Teleindication =>
        /\ hpc = "store" /\ hmsg.typ = "M_SP_NA_1"
        /\ C20_Written(Teleindication, Teleindication', hmsg.pts[hidx].Ioa,
                       hmsg.pts[hidx].Value)
    /\ Telecontrol' # Telecontrol =>
        \E p \in Callers :
            /\ HasReturned(p) /\ arg[p].op = "SendTelecontrol"
            /\ C20_Written(Telecontrol, Telecontrol', arg[p].offset, arg[p].value)
    /\ Teleregulation' # Teleregulation =>
        \E p \in Callers :
            /\ HasReturned(p) /\ arg[p].op = "SendTelemetry"
            /\ C20_Written(Teleregulation, Teleregulation', arg[p].offset,
                           arg[p].value)
    /\ DOMAIN Telemetry \subseteq DOMAIN Telemetry'
    /\ DOMAIN Teleindication \subseteq DOMAIN Teleindication'
    /\ DOMAIN Telecontrol \subseteq DOMAIN Telecontrol'
    /\ DOMAIN Teleregulation \subseteq DOMAIN Teleregulation'

C21_Unguarded ==
    /\ hpc = "store" => ENABLED ASDUHandlerStore
    /\ \A p \in Callers : pc[p] = "ut_range" => ENABLED updateTableData(p)

\* the handler is at its write of a table that the UI thread is ranging over,
\* and nobody holds the mutex
C21_Witness ==
    \E p \in Callers :
        /\ pc[p] = "ut_range"
        /\ WritesTable(arg[p].tab)
        /\ mu = "free"

\* C22: no command and no interrogation is handed to the transport while the
\* Connected flag is false: in every step in which a caller thread or the
\* scheduler hands a message over, the flag is true.
C22_NoSendWhileDisconnected ==
    [][\A t \in Callers \cup {"run"} : HandsOver(t) => Connected]_vars

\* C23: at most one session created by the client is live (started and not
\* closed: connecting, reconnecting or connected) at any time.
C23_AtMostOneLive ==
    Cardinality({s \in Sessions : sessions[s] \in {"connecting", "up"}}) <= 1

\* C24: after Disconnect() has returned, the Connected flag stays false until
\* Connect() is called again: while the single caller thread has its
\* Disconnect() call returned and has started no further call, no step leaves
\* the flag true.
C24_StaysDisconnected ==
    [][(HasReturned(UIThread) /\ arg[UIThread].op = "Disconnect")
          => ~Connected']_vars

\* C25: every outbound message carries the configured common address: whenever
\* a caller thread or the scheduler hands a command or an interrogation to the
\* transport, its common address is the one of the field commonAddr, which the
\* Ingestion Handler filters on.
C25_ConfiguredCommonAddr ==
    [][\A t \in Callers \cup {"run"} :
          HandsOver(t) => HandedOver(t).msg.ca = CommonAddr(commonAddr)]_vars

\* C26: a Connect() concurrent with UpdateConfig builds its remote address from
\* the complete old or the complete new (host, port) pair: the host and the port
\* that Connect has read when it builds the address are those of one
\* configuration.
C26_WholeAddress ==
    [][\A p \in Callers :
          StepsFrom(p, "cn_start") =>
              \E c \in Configs : c.host = addrIP[p] /\ c.port = serverPort]_vars

\* C27: the interrogation of the scheduler is serialized with the command
\* sends: the scheduler hands no message to the transport while a
\* SendTelecontrol call is between its select and its execute message.
C27_InterrogationSerialized ==
    [][HandsOver("run") => \A p \in Callers : pc[p] # "tc_execute"]_vars

\* C28: after Close() has closed the stop channel, the goroutine of run
\* eventually returns, from its start-up sleep, from a tick in progress and from
\* its wait for the next tick (a second Close() ends the whole process instead).
C28_SchedulerTerminates == (closer = "closed") ~> (spc = "exited" \/ panicked)

\* run has returned after Close(), having sent an interrogation in a tick
C28_Witness ==
    /\ closer = "closed"
    /\ spc = "exited"
    /\ ~panicked
    /\ Len(handed["run"]) = 1

====
